---- MODULE Spec2Model ----
(***************************************************************************)
(* FgEventRenderer (packages/core/src/component/renderers):                *)
(* the foreground event renderer of the calendar.  The model follows one   *)
(* renderer instance: its computed options, its three subrenderers (plain  *)
(* segment rendering, selected instance, hidden instances), the sizing     *)
(* dirty flag, the time-text helpers and sortEventSegs.                    *)
(*                                                                         *)
(* JavaScript values are modelled by strings: "undefined", "null",         *)
(* "false", "true".  A DOM element is a record; the record NoEl stands for *)
(* a seg.el that is undefined or null.                                     *)
(***************************************************************************)
EXTENDS Integers, Sequences, FiniteSets, TLC

\* ------------------------------------------------------------------ bounds
\* longest segment array handed to renderSegs
MaxSegs == 2
\* most top-level elements one renderSegHtml string parses to
MaxElsPerHtml == 2
HtmlCounts == 0 .. MaxElsPerHtml
\* longest segment array handed to sortEventSegs
MaxSortSegs == 3

InstanceIds == {"a", "b"}
\* selectedInstanceId: "" stands for undefined (falsy)
NoId == ""
SelectedIds == {NoId} \cup InstanceIds
\* mirrorInfo: undefined, or a mirror object with isDragging set
MirrorInfos == {"undefined", "dragging"}
\* hiddenInstances: undefined, or a map given by the ids with a truthy entry
NoHidden == [given |-> FALSE, ids |-> {}]
HiddenMaps == {NoHidden} \cup {[given |-> TRUE, ids |-> s] : s \in SUBSET InstanceIds}
\* option values of displayEventTime / displayEventEnd
OptBools == {"undefined", "false", "true"}
\* option values of eventTimeFormat
OptFormats == {"undefined", "customFormat"}
ObjectIds == 0 .. 2

\* ------------------------------------------------------- JavaScript helpers
\* x == null
IsNullish(v) == v \in {"undefined", "null"}
\* truthiness of the modelled values
Truthy(v) == v \notin {"undefined", "null", "false", "", "NaN", "0"}
\* Boolean(v)
Boolean(v) == Truthy(v)

\* ----------------------------------------------------------------- elements
NoEl == [src |-> 0, classes |-> {}, visibility |-> ""]
HasEl(e) == e.src # 0

\* a list of Seg objects: ref is the identity of the array object, arr the
\* input array whose Seg objects it holds, idx their positions in that array.
\* Identities are named relative to the latest renderSegs call: CurArr is the
\* array passed to it and PrevArr the array passed to the call before, CurOut
\* is the latest array built by filterSegsViaEls and PrevOut the one before.
CurArr == "array"
PrevArr == "previous array"
CurOut == "filtered"
PrevOut == "previous filtered"
NoList == [ref |-> "none", arr |-> "none", idx |-> << >>]
Iota(n) == [i \in 1 .. n |-> i]
InputList(n) == [ref |-> CurArr, arr |-> CurArr, idx |-> Iota(n)]
\* the name of list l once a new array is passed (newArr) and once
\* filterSegsViaEls builds a new array (newOut)
Older(l, newArr, newOut) ==
    [ref |-> IF newArr /\ l.ref = CurArr THEN PrevArr
             ELSE IF newOut /\ l.ref = CurOut THEN PrevOut ELSE l.ref,
     arr |-> IF newArr /\ l.arr = CurArr THEN PrevArr ELSE l.arr,
     idx |-> l.idx]

VARIABLES
    options,            \* this.context.options (an object with identity id)
    subDisplayEventTime,\* what computeDisplayEventTime() currently returns
    subDisplayEventEnd, \* what computeDisplayEventEnd() currently returns
    memoArgs,           \* memoize: the arguments of the last worker call
    eventTimeFormat,    \* computed option
    displayEventTime,   \* computed option
    displayEventEnd,    \* computed option
    props,              \* the props of the latest renderSegs call
    arrItems,           \* instanceId of each Seg object of props.segs
    segEl,              \* seg.el of each Seg object of props.segs
    plainSub,           \* subrenderer(_renderSegsPlain, _unrenderSegsPlain)
    selSub,             \* subrenderer(renderSelectedInstance, unrender...)
    hidSub,             \* subrenderer(renderHiddenInstances, unrender...)
    segs,               \* this.segs
    isSizeDirty,        \* this.isSizeDirty
    rendered,           \* the latest renderSegs returned, no teardown since
    dirtySince,         \* history: a renderSegs returned since the last assignSizes
    returned,           \* history: what the most recent renderSegs returned
    log,                \* the calls the latest operation made, in order
    thrown,             \* the latest operation ended in a TypeError
    call,               \* latest call of a pure helper: its name and arguments
    ret                 \* what that call returned

vars == << options, subDisplayEventTime, subDisplayEventEnd, memoArgs,
           eventTimeFormat, displayEventTime, displayEventEnd, props, arrItems,
           segEl, plainSub, selSub, hidSub, segs, isSizeDirty, rendered,
           dirtySince, returned, log, thrown, call, ret >>

rendererVars == << options, subDisplayEventTime, subDisplayEventEnd, memoArgs,
           eventTimeFormat, displayEventTime, displayEventEnd, props, arrItems,
           segEl, plainSub, selSub, hidSub, segs, isSizeDirty, rendered,
           dirtySince, returned, log, thrown >>

\* ---------------------------------------------------------- computed options
\* computeEventTimeFormat(): { hour: 'numeric', minute: '2-digit', omitZeroMinute: true }
computeEventTimeFormat == "hourMinuteFormat"
\* computeDisplayEventTime(): true in the base class, overridden by day-grid
\* and time-grid renderers ("might be based off of range")
computeDisplayEventTime == subDisplayEventTime
computeDisplayEventEnd == subDisplayEventEnd

\* createFormatter(input, defaultSeparator)
createFormatter(input, separator) == [input |-> input, separator |-> separator]
UndefinedFormatter == [input |-> "undefined", separator |-> "undefined"]

\* _updateComputedOptions(options): the three computed fields
_updateComputedOptions(opts) ==
    [ eventTimeFormat |-> createFormatter(
          IF Truthy(opts.eventTimeFormat) THEN opts.eventTimeFormat
          ELSE computeEventTimeFormat, opts.defaultRangeSeparator),
      displayEventTime |-> IF IsNullish(opts.displayEventTime) THEN computeDisplayEventTime
                           ELSE opts.displayEventTime,
      displayEventEnd |-> IF IsNullish(opts.displayEventEnd) THEN computeDisplayEventEnd
                          ELSE opts.displayEventEnd ]

\* memoize(worker): the worker runs when there was no call yet or an argument
\* is not identical (===) to the one of the last worker call
memoizeHit(args) == memoArgs.called /\ memoArgs.id = args.id

\* updateComputedOptions = memoize(_updateComputedOptions), called with
\* this.context.options; the computed fields afterwards
updateComputedOptions(opts) ==
    IF memoizeHit(opts)
    THEN [eventTimeFormat |-> eventTimeFormat, displayEventTime |-> displayEventTime,
          displayEventEnd |-> displayEventEnd]
    ELSE _updateComputedOptions(opts)

\* ------------------------------------------------------- segment elements
\* getSegClasses(seg, isDraggable, isResizable, mirrorInfo)
getSegClasses(isStart, isEnd, uiClassNames, isDraggable, isResizable, mirrorInfo) ==
    {"fc-event", IF isStart THEN "fc-start" ELSE "fc-not-start",
                 IF isEnd THEN "fc-end" ELSE "fc-not-end"}
    \cup uiClassNames
    \cup (IF isDraggable THEN {"fc-draggable"} ELSE {})
    \cup (IF isResizable THEN {"fc-resizable"} ELSE {})
    \cup (IF Truthy(mirrorInfo)
          THEN {"fc-mirror"}
               \cup (IF mirrorInfo = "dragging" THEN {"fc-dragging"} ELSE {})
               \cup (IF mirrorInfo = "resizing" THEN {"fc-resizing"} ELSE {})
          ELSE {})

\* renderSegHtml(seg, mirrorInfo) (abstract): the HTML string of segment i, a
\* sequence of count top-level tags carrying the segment's class names
renderSegHtml(i, mirrorInfo, count) ==
    [k \in 1 .. count |->
        [src |-> i, classes |-> getSegClasses(TRUE, TRUE, {}, FALSE, FALSE, mirrorInfo)]]

\* htmlToElements(html): one fresh element per top-level tag, in order
htmlToElements(html) ==
    [k \in 1 .. Len(html) |->
        [src |-> html[k].src, classes |-> html[k].classes, visibility |-> ""]]

\* filterSegsViaEls(context, segs, isMirror): the eventRender callback may
\* reject a segment (its el becomes null); the segments with an el are kept,
\* in order, in a new array
filterSegsViaEls(els, veto) ==
    LET n == Len(els)
        els2 == [i \in 1 .. n |-> IF i \in veto THEN NoEl ELSE els[i]]
    IN [els |-> els2,
        segs |-> [ref |-> CurOut, arr |-> CurArr,
                  idx |-> SelectSeq(Iota(n), LAMBDA i : HasEl(els2[i]))]]

\* the html string built by the loop of renderSegEls
BuildHtml(n, mirrorInfo, counts) ==
    LET RECURSIVE H(_)
        H(k) == IF k = 0 THEN << >>
                ELSE H(k - 1) \o renderSegHtml(k, mirrorInfo, counts[k])
    IN H(n)

\* renderSegEls(segs, mirrorInfo): els are the seg.el of the input array's
\* Seg objects before the call.  Result: thrown (segs[i] undefined in the
\* forEach), the seg.el afterwards, the returned array, and whether html was
\* built and the segments filtered.
renderSegEls(els, mirrorInfo, counts, veto) ==
    LET n == Len(els)
        html == BuildHtml(n, mirrorInfo, counts)
        parsed == htmlToElements(html)
        assigned == [i \in 1 .. n |-> IF i <= Len(parsed) THEN parsed[i] ELSE els[i]]
        filtered == filterSegsViaEls(assigned, veto)
    IN IF n = 0
       THEN [thrown |-> FALSE, els |-> els, segs |-> InputList(0),
             built |-> FALSE]
       ELSE IF Len(parsed) > n
       THEN [thrown |-> TRUE, els |-> assigned, segs |-> NoList, built |-> TRUE]
       ELSE [thrown |-> FALSE, els |-> filtered.els, segs |-> filtered.segs,
             built |-> TRUE]

\* ------------------------------------------- manipulation on rendered segs
\* the Seg objects of list l are those of the current input array
Live(l) == l.arr = CurArr

\* renderSelectedInstance({ segs, instanceId })
renderSelectedInstance(els, items, l, instanceId) ==
    [i \in 1 .. Len(els) |->
        IF /\ Truthy(instanceId)
           /\ \E k \in 1 .. Len(l.idx) : l.idx[k] = i
           /\ items[i] = instanceId
           /\ HasEl(els[i])
        THEN [els[i] EXCEPT !.classes = @ \cup {"fc-selected"}]
        ELSE els[i]]

\* unrenderSelectedInstance that leaves the class on every element
unrenderSelectedInstanceKeepsClass(els, items, l, instanceId) == els

\* unrenderSelectedInstance({ segs, instanceId })
unrenderSelectedInstance(els, items, l, instanceId) ==
    [i \in 1 .. Len(els) |->
        IF /\ Truthy(instanceId)
           /\ \E k \in 1 .. Len(l.idx) : l.idx[k] = i
           /\ HasEl(els[i])
        THEN [els[i] EXCEPT !.classes = @ \ {"fc-selected"}]
        ELSE els[i]]

\* the segments of l that the hiddenInstances map names
HiddenHits(items, l, hiddenInstances) ==
    IF hiddenInstances.given
    THEN {i \in 1 .. Len(items) :
            /\ \E k \in 1 .. Len(l.idx) : l.idx[k] = i
            /\ items[i] \in hiddenInstances.ids}
    ELSE {}

\* renderHiddenInstances / unrenderHiddenInstances read seg.el.style of a
\* segment whose el is null: a TypeError
HiddenThrows(els, items, l, hiddenInstances) ==
    \E i \in HiddenHits(items, l, hiddenInstances) : ~HasEl(els[i])

\* renderHiddenInstances({ segs, hiddenInstances })
renderHiddenInstances(els, items, l, hiddenInstances) ==
    [i \in 1 .. Len(els) |->
        IF i \in HiddenHits(items, l, hiddenInstances) /\ HasEl(els[i])
        THEN [els[i] EXCEPT !.visibility = "hidden"]
        ELSE els[i]]

\* unrenderHiddenInstances that resets no element
unrenderHiddenInstancesKeepsHidden(els, items, l, hiddenInstances) == els

\* unrenderHiddenInstances({ segs, hiddenInstances })
unrenderHiddenInstances(els, items, l, hiddenInstances) ==
    [i \in 1 .. Len(els) |->
        IF i \in HiddenHits(items, l, hiddenInstances) /\ HasEl(els[i])
        THEN [els[i] EXCEPT !.visibility = ""]
        ELSE els[i]]

\* ------------------------------------------------------------ subrenderers
\* subrenderer(renderFunc, unrenderFunc): keeps the props and the result of
\* its latest render; a call with shallow-equal props returns that result,
\* any other call runs unrenderFunc on the old result and then renderFunc
NoPlain == [active |-> FALSE,
            props |-> [segs |-> NoList, mirrorInfo |-> "undefined"],
            res |-> [segs |-> NoList, isMirror |-> FALSE]]
NoSel == [active |-> FALSE, props |-> [segs |-> NoList, instanceId |-> NoId]]
NoHid == [active |-> FALSE, props |-> [segs |-> NoList, hiddenInstances |-> NoHidden]]

\* isPropsEqual: every prop identical (===); arrays compare by identity
isPropsEqual(p, q) ==
    /\ p.segs.ref = q.segs.ref
    /\ [p EXCEPT !.segs = NoList] = [q EXCEPT !.segs = NoList]

subrendererSkips(sub, newProps) == sub.active /\ isPropsEqual(sub.props, newProps)

\* a logged call fn(context, segs, isMirror): the array passed is logged by
\* its identity
Call(fn, l, flag) == [fn |-> fn, segs |-> l.ref, isMirror |-> flag]

\* _renderSegsPlain that passes isMirror on to triggerPositionedSegs
_renderSegsPlainPassesIsMirror(els, mirrorInfo, counts, veto) ==
    LET isMirror == Boolean(mirrorInfo)
        r == renderSegEls(els, mirrorInfo, counts, veto)
    IN [thrown |-> r.thrown, els |-> r.els,
        res |-> [segs |-> r.segs, isMirror |-> isMirror],
        log |-> IF r.thrown THEN << >>
                ELSE << Call("triggerPositionedSegs", r.segs, isMirror) >>]

\* _renderSegsPlain({ segs, mirrorInfo }, context): the render result and
\* the calls made
_renderSegsPlain(els, mirrorInfo, counts, veto) ==
    LET isMirror == Boolean(mirrorInfo)
        r == renderSegEls(els, mirrorInfo, counts, veto)
    IN [thrown |-> r.thrown, els |-> r.els,
        res |-> [segs |-> r.segs, isMirror |-> isMirror],
        log |-> IF r.thrown THEN << >>
                ELSE << Call("triggerPositionedSegs", r.segs, FALSE) >>]

\* _unrenderSegsPlain({ segs, isMirror }, context): the calls made
_unrenderSegsPlain(res) == << Call("triggerWillRemoveSegs", res.segs, res.isMirror) >>

\* ------------------------------------------------------------------ sizing
\* computeSizes(force, userComponent): the calls made
computeSizes(force) ==
    IF force \/ isSizeDirty THEN << Call("computeSegSizes", segs, FALSE) >> ELSE << >>

\* assignSizes that clears the flag only when it assigned
assignSizesClearsWhenAssigned(force) ==
    [log |-> IF force \/ isSizeDirty THEN << Call("assignSegSizes", segs, FALSE) >>
             ELSE << >>,
     isSizeDirty |-> IF force THEN FALSE ELSE isSizeDirty]

\* assignSizes(force, userComponent): the calls made and the flag afterwards
assignSizes(force) ==
    [log |-> IF force \/ isSizeDirty THEN << Call("assignSegSizes", segs, FALSE) >>
             ELSE << >>,
     isSizeDirty |-> FALSE]

\* --------------------------------------------------------------- time text
\* a DateMarker is "null" or a date; a forced timezone offset is "undefined"
\* or an offset
DateEnvCall(fn, start, end, formatter, forcedStartTzo, forcedEndTzo, forcedTzo) ==
    [fn |-> fn, start |-> start, end |-> end, formatter |-> formatter,
     forcedStartTzo |-> forcedStartTzo, forcedEndTzo |-> forcedEndTzo,
     forcedTzo |-> forcedTzo]

\* a formatter argument that is undefined or null
NullFormatter == [input |-> "null", separator |-> "undefined"]
IsNullishFormatter(f) == IsNullish(f.input)

\* _getTimeText that shows the time of all-day events too
_getTimeTextIgnoresAllDay(start, end, allDay, formatter, displayEnd, forcedStartTzo, forcedEndTzo) ==
    LET f == IF IsNullishFormatter(formatter) THEN eventTimeFormat ELSE formatter
        d == IF IsNullish(displayEnd) THEN displayEventEnd ELSE displayEnd
    IN IF Truthy(displayEventTime)
       THEN IF Truthy(d) /\ Truthy(end)
            THEN [text |-> "formatted", calls |-> << DateEnvCall("formatRange",
                     start, end, f, forcedStartTzo, forcedEndTzo, "absent") >>]
            ELSE [text |-> "formatted", calls |-> << DateEnvCall("format",
                     start, "absent", f, "absent", "absent", forcedStartTzo) >>]
       ELSE [text |-> "", calls |-> << >>]

\* _getTimeText with displayEnd || this.displayEventEnd
_getTimeTextFalseDisplayEndDefaults(start, end, allDay, formatter, displayEnd, forcedStartTzo, forcedEndTzo) ==
    LET f == IF IsNullishFormatter(formatter) THEN eventTimeFormat ELSE formatter
        d == IF Truthy(displayEnd) THEN displayEnd ELSE displayEventEnd
    IN IF Truthy(displayEventTime) /\ ~Truthy(allDay)
       THEN IF Truthy(d) /\ Truthy(end)
            THEN [text |-> "formatted", calls |-> << DateEnvCall("formatRange",
                     start, end, f, forcedStartTzo, forcedEndTzo, "absent") >>]
            ELSE [text |-> "formatted", calls |-> << DateEnvCall("format",
                     start, "absent", f, "absent", "absent", forcedStartTzo) >>]
       ELSE [text |-> "", calls |-> << >>]

\* _getTimeText(start, end, allDay, formatter, displayEnd, forcedStartTzo,
\* forcedEndTzo): the text returned and the dateEnv calls made
_getTimeText(start, end, allDay, formatter, displayEnd, forcedStartTzo, forcedEndTzo) ==
    LET f == IF IsNullishFormatter(formatter) THEN eventTimeFormat ELSE formatter
        d == IF IsNullish(displayEnd) THEN displayEventEnd ELSE displayEnd
    IN IF Truthy(displayEventTime) /\ ~Truthy(allDay)
       THEN IF Truthy(d) /\ Truthy(end)
            THEN [text |-> "formatted", calls |-> << DateEnvCall("formatRange",
                     start, end, f, forcedStartTzo, forcedEndTzo, "absent") >>]
            ELSE [text |-> "formatted", calls |-> << DateEnvCall("format",
                     start, "absent", f, "absent", "absent", forcedStartTzo) >>]
       ELSE [text |-> "", calls |-> << >>]

\* getTimeText(eventRange, formatter, displayEnd)
getTimeText(eventRange, formatter, displayEnd) ==
    _getTimeText(eventRange.instance.range.start,
                 IF eventRange.def.hasEnd THEN eventRange.instance.range.end ELSE "null",
                 eventRange.def.allDay,
                 formatter,
                 displayEnd,
                 eventRange.instance.forcedStartTzo,
                 eventRange.instance.forcedEndTzo)

\* ----------------------------------------------------------------- sorting
\* a date of a segment's instance range: null or a time value
NullDate == [isNull |-> TRUE, valueOf |-> 0]
Date(ms) == [isNull |-> FALSE, valueOf |-> ms]

\* buildSegCompareObj(seg)
buildSegCompareObj(seg) ==
    LET start == IF ~seg.start.isNull THEN seg.start.valueOf ELSE 0
        end == IF ~seg.end.isNull THEN seg.end.valueOf ELSE 0
    IN [id |-> seg.publicId,
        start |-> start,
        end |-> end,
        duration |-> end - start,
        allDay |-> IF seg.allDay THEN 1 ELSE 0,
        _seg |-> seg]

\* compareByFieldSpecs(obj0, obj1, fieldSpecs): the first non-zero comparison
\* of a field the specs name, in the order the spec asks for
compareByFieldSpecs(obj0, obj1, fieldSpecs) ==
    LET RECURSIVE C(_)
        C(i) == IF i > Len(fieldSpecs) THEN 0
                ELSE LET cmp == (obj0[fieldSpecs[i].field] - obj1[fieldSpecs[i].field])
                                * fieldSpecs[i].order
                     IN IF cmp # 0 THEN cmp ELSE C(i + 1)
    IN C(1)

\* objs.sort(function(obj0, obj1) { return compareByFieldSpecs(obj0, obj1,
\* eventOrderSpecs) }): the stable sort of the array
ArraySort(objs, eventOrderSpecs) ==
    LET RECURSIVE Insert(_, _)
        Insert(sorted, x) ==
            IF sorted = << >> THEN << x >>
            ELSE IF compareByFieldSpecs(sorted[Len(sorted)], x, eventOrderSpecs) <= 0
                 THEN Append(sorted, x)
                 ELSE Append(Insert(SubSeq(sorted, 1, Len(sorted) - 1), x),
                             sorted[Len(sorted)])
        RECURSIVE S(_)
        S(k) == IF k = 0 THEN << >> ELSE Insert(S(k - 1), objs[k])
    IN S(Len(objs))

\* sortEventSegs that returns the segments in the order given
sortEventSegsUnsorted(segments, eventOrderSpecs) ==
    LET objs == [i \in 1 .. Len(segments) |-> buildSegCompareObj(segments[i])]
    IN [result |-> [i \in 1 .. Len(objs) |-> objs[i]._seg], segs |-> segments]

\* sortEventSegs(segs, eventOrderSpecs): the array returned and the input
\* array after the call
sortEventSegs(segments, eventOrderSpecs) ==
    LET objs == [i \in 1 .. Len(segments) |-> buildSegCompareObj(segments[i])]
        sorted == ArraySort(objs, eventOrderSpecs)
    IN [result |-> [i \in 1 .. Len(sorted) |-> sorted[i]._seg], segs |-> segments]

\* ------------------------------------------------------------------- state
\* the latest operation: its name and its boolean argument (force of the
\* sizing calls; for renderSegs, whether props.segs is the previous array)
Op(name, arg) == [op |-> name, arg |-> arg]

NewOptions(id, dt, de, fmt) ==
    [id |-> id, displayEventTime |-> dt, displayEventEnd |-> de,
     eventTimeFormat |-> fmt, defaultRangeSeparator |-> " - "]

DefaultOptions == NewOptions(0, "undefined", "undefined", "undefined")

\* the state after construction, under the given options and subclass
Constructed(opts, t, e) ==
    /\ options = opts
    /\ subDisplayEventTime = t
    /\ subDisplayEventEnd = e
    /\ memoArgs = [called |-> FALSE, id |-> 0]
    /\ eventTimeFormat = UndefinedFormatter
    /\ displayEventTime = "undefined"
    /\ displayEventEnd = "undefined"
    /\ props = [segs |-> InputList(0), mirrorInfo |-> "undefined",
                selectedInstanceId |-> NoId, hiddenInstances |-> NoHidden]
    /\ arrItems = << >>
    /\ segEl = << >>
    /\ plainSub = NoPlain
    /\ selSub = NoSel
    /\ hidSub = NoHid
    /\ segs = NoList
    /\ isSizeDirty = FALSE
    /\ rendered = FALSE
    /\ dirtySince = FALSE
    /\ returned = NoList
    /\ log = << >>
    /\ thrown = FALSE
    /\ call = Op("new", FALSE)
    /\ ret = Op("none", FALSE)

Init == Constructed(DefaultOptions, "true", "true")

\* this.renderSegsPlain = subrenderer(this._renderSegsPlain, this._unrenderSegsPlain),
\* called with { segs: props.segs, mirrorInfo: props.mirrorInfo }
this_renderSegsPlain(sameArr, els, n, mirrorInfo, counts, veto) ==
    LET pProps == [segs |-> InputList(n), mirrorInfo |-> mirrorInfo]
        skip == subrendererSkips(
                    [plainSub EXCEPT !.props.segs = Older(@, ~sameArr, FALSE)], pProps)
        pr == _renderSegsPlain(els, mirrorInfo, counts, veto)
        newOut == ~skip /\ pr.res.segs.ref = CurOut
        oldRes == [plainSub.res EXCEPT !.segs = Older(@, ~sameArr, newOut)]
    IN IF skip
       THEN [thrown |-> FALSE, newOut |-> FALSE, sub |-> plainSub, els |-> els,
             log |-> << >>]
       ELSE [thrown |-> pr.thrown, newOut |-> newOut,
             sub |-> IF pr.thrown THEN NoPlain
                     ELSE [active |-> TRUE, props |-> pProps, res |-> pr.res],
             els |-> pr.els,
             log |-> (IF plainSub.active THEN _unrenderSegsPlain(oldRes) ELSE << >>)
                     \o pr.log]

\* this.renderSelectedInstance = subrenderer(renderSelectedInstance, unrenderSelectedInstance),
\* called with { segs, instanceId: props.selectedInstanceId }; old is the
\* subrenderer before the call
this_renderSelectedInstance(old, els, items, l, instanceId) ==
    LET sProps == [segs |-> l, instanceId |-> instanceId]
        un == IF old.active /\ Live(old.props.segs)
              THEN unrenderSelectedInstance(els, items, old.props.segs,
                                            old.props.instanceId)
              ELSE els
    IN IF subrendererSkips(old, sProps)
       THEN [sub |-> old, els |-> els]
       ELSE [sub |-> [active |-> TRUE, props |-> sProps],
             els |-> renderSelectedInstance(un, items, l, instanceId)]

\* this.renderHiddenInstances = subrenderer(renderHiddenInstances, unrenderHiddenInstances),
\* called with { segs, hiddenInstances: props.hiddenInstances }
this_renderHiddenInstances(old, els, items, l, hiddenInstances) ==
    LET hProps == [segs |-> l, hiddenInstances |-> hiddenInstances]
        live == old.active /\ Live(old.props.segs)
        throws == live /\ HiddenThrows(els, items, old.props.segs,
                                       old.props.hiddenInstances)
        un == IF live
              THEN unrenderHiddenInstances(els, items, old.props.segs,
                                           old.props.hiddenInstances)
              ELSE els
    IN IF subrendererSkips(old, hProps)
       THEN [thrown |-> FALSE, sub |-> old, els |-> els]
       ELSE IF throws
       THEN [thrown |-> TRUE, sub |-> old, els |-> un]
       ELSE [thrown |-> FALSE, sub |-> [active |-> TRUE, props |-> hProps],
             els |-> renderHiddenInstances(un, items, l, hiddenInstances)]

\* renderSegs(props).  sameArr: props.segs is the array of the previous call;
\* otherwise a new array of new Seg objects (items: their instance ids).
\* counts: how many elements the html of each segment parses to; veto: the
\* segments the eventRender callback rejects.
RenderSegs(sameArr, items, mirrorInfo, selectedInstanceId, hiddenInstances, counts, veto) ==
    LET its == IF sameArr THEN arrItems ELSE items
        n == Len(its)
        els0 == IF sameArr THEN segEl ELSE [i \in 1 .. n |-> NoEl]
        \* this.updateComputedOptions(this.context.options)
        co == updateComputedOptions(options)
    IN \E p \in {this_renderSegsPlain(sameArr, els0, n, mirrorInfo, counts, veto)} :
       \E s \in {this_renderSelectedInstance(
                    [selSub EXCEPT !.props.segs = Older(@, ~sameArr, p.newOut)],
                    p.els, its, p.sub.res.segs, selectedInstanceId)} :
       \E h \in {this_renderHiddenInstances(
                    [hidSub EXCEPT !.props.segs = Older(@, ~sameArr, p.newOut)],
                    s.els, its, p.sub.res.segs, hiddenInstances)} :
       /\ ~thrown
       /\ props' = [segs |-> InputList(n), mirrorInfo |-> mirrorInfo,
                    selectedInstanceId |-> selectedInstanceId,
                    hiddenInstances |-> hiddenInstances]
       /\ arrItems' = its
       /\ memoArgs' = IF memoizeHit(options) THEN memoArgs
                      ELSE [called |-> TRUE, id |-> options.id]
       /\ eventTimeFormat' = co.eventTimeFormat
       /\ displayEventTime' = co.displayEventTime
       /\ displayEventEnd' = co.displayEventEnd
       /\ call' = Op("renderSegs", sameArr)
       /\ plainSub' = p.sub
       /\ log' = p.log
       /\ IF p.thrown
          THEN \* the TypeError leaves renderSegsPlain and renderSegs
               /\ thrown' = TRUE
               /\ segEl' = p.els
               /\ selSub' = [selSub EXCEPT !.props.segs = Older(@, ~sameArr, p.newOut)]
               /\ hidSub' = [hidSub EXCEPT !.props.segs = Older(@, ~sameArr, p.newOut)]
               /\ rendered' = FALSE
               /\ segs' = Older(segs, ~sameArr, p.newOut)
               /\ returned' = Older(returned, ~sameArr, p.newOut)
               /\ UNCHANGED << isSizeDirty, dirtySince >>
          ELSE IF h.thrown
          THEN \* the TypeError leaves renderHiddenInstances and renderSegs
               /\ thrown' = TRUE
               /\ segEl' = h.els
               /\ selSub' = s.sub
               /\ hidSub' = h.sub
               /\ rendered' = FALSE
               /\ segs' = Older(segs, ~sameArr, p.newOut)
               /\ returned' = Older(returned, ~sameArr, p.newOut)
               /\ UNCHANGED << isSizeDirty, dirtySince >>
          ELSE /\ thrown' = FALSE
               /\ segEl' = h.els
               /\ selSub' = s.sub
               /\ hidSub' = h.sub
               \* this.segs = segs; this.isSizeDirty = true; return segs
               /\ segs' = p.sub.res.segs
               /\ isSizeDirty' = TRUE
               /\ rendered' = TRUE
               /\ dirtySince' = TRUE
               /\ returned' = p.sub.res.segs
       /\ UNCHANGED << options, subDisplayEventTime, subDisplayEventEnd, ret >>

\* the renderer is torn down: every subrenderer unrenders what it rendered
Unrender ==
    LET hUn == IF hidSub.active
               THEN unrenderHiddenInstances(segEl, arrItems, hidSub.props.segs,
                                            hidSub.props.hiddenInstances)
               ELSE segEl
        sUn == IF selSub.active
               THEN unrenderSelectedInstance(hUn, arrItems, selSub.props.segs,
                                             selSub.props.instanceId)
               ELSE hUn
    IN /\ ~thrown
       /\ rendered
       /\ segEl' = sUn
       /\ log' = IF plainSub.active THEN _unrenderSegsPlain(plainSub.res) ELSE << >>
       /\ plainSub' = NoPlain
       /\ selSub' = NoSel
       /\ hidSub' = NoHid
       /\ rendered' = FALSE
       /\ call' = Op("unrender", FALSE)
       /\ UNCHANGED << options, subDisplayEventTime, subDisplayEventEnd, memoArgs,
                       eventTimeFormat, displayEventTime, displayEventEnd, props,
                       arrItems, segs, isSizeDirty, dirtySince, returned, thrown, ret >>

ComputeSizes(force) ==
    /\ ~thrown
    /\ log' = computeSizes(force)
    /\ call' = Op("computeSizes", force)
    /\ UNCHANGED << options, subDisplayEventTime, subDisplayEventEnd, memoArgs,
                    eventTimeFormat, displayEventTime, displayEventEnd, props,
                    arrItems, segEl, plainSub, selSub, hidSub, segs, isSizeDirty,
                    rendered, dirtySince, returned, thrown, ret >>

AssignSizes(force) ==
    /\ ~thrown
    /\ log' = assignSizes(force).log
    /\ isSizeDirty' = assignSizes(force).isSizeDirty
    /\ dirtySince' = FALSE
    /\ call' = Op("assignSizes", force)
    /\ UNCHANGED << options, subDisplayEventTime, subDisplayEventEnd, memoArgs,
                    eventTimeFormat, displayEventTime, displayEventEnd, props,
                    arrItems, segEl, plainSub, selSub, hidSub, segs,
                    rendered, returned, thrown, ret >>

\* the calendar replaces this.context.options by a new options object
SetOptions(dt, de, fmt) ==
    /\ ~thrown
    /\ options' = NewOptions(
          CHOOSE i \in ObjectIds : i # options.id /\ (memoArgs.called => i # memoArgs.id),
          dt, de, fmt)
    /\ log' = << >>
    /\ call' = Op("setOptions", FALSE)
    /\ UNCHANGED << subDisplayEventTime, subDisplayEventEnd, memoArgs,
                    eventTimeFormat, displayEventTime, displayEventEnd, props,
                    arrItems, segEl, plainSub, selSub, hidSub, segs, isSizeDirty,
                    rendered, dirtySince, returned, thrown, ret >>

\* what the subclass computes from its date range changes
RangeChange(t, e) ==
    /\ ~thrown
    /\ subDisplayEventTime' = t
    /\ subDisplayEventEnd' = e
    /\ log' = << >>
    /\ call' = Op("rangeChange", FALSE)
    /\ UNCHANGED << options, memoArgs,
                    eventTimeFormat, displayEventTime, displayEventEnd, props,
                    arrItems, segEl, plainSub, selSub, hidSub, segs, isSizeDirty,
                    rendered, dirtySince, returned, thrown, ret >>

\* the segment arrays up to MaxSegs long, up to renaming of the instance ids
SegArrays == {s \in UNION {[1 .. n -> InstanceIds] : n \in 0 .. MaxSegs} :
                 Len(s) > 0 => s[1] = "a"}
\* arrays of segments of one event instance
PlainArrays == {s \in SegArrays : \A i \in 1 .. Len(s) : s[i] = "a"}

\* a renderSegs call with its props drawn from the given sets; the array is
\* the previous one or a new one
RenderCall(Arrays, Counts, Mirrors, Sels, Hiddens) ==
    \E mirrorInfo \in Mirrors, selectedInstanceId \in Sels, hiddenInstances \in Hiddens :
       \/ \E counts \in [1 .. Len(arrItems) -> Counts],
             veto \in SUBSET (1 .. Len(arrItems)) :
             RenderSegs(TRUE, arrItems, mirrorInfo, selectedInstanceId,
                        hiddenInstances, counts, veto)
       \/ \E items \in Arrays :
             \E counts \in [1 .. Len(items) -> Counts],
                veto \in SUBSET (1 .. Len(items)) :
                RenderSegs(FALSE, items, mirrorInfo, selectedInstanceId,
                           hiddenInstances, counts, veto)

\* the renderer with every input
Next ==
    \/ RenderCall(SegArrays, HtmlCounts, MirrorInfos, SelectedIds, HiddenMaps)
    \/ Unrender
    \/ \E force \in BOOLEAN : ComputeSizes(force)
    \/ \E force \in BOOLEAN : AssignSizes(force)
    \/ \E dt \in OptBools, de \in OptBools, fmt \in OptFormats : SetOptions(dt, de, fmt)
    \/ \E t \in {"false", "true"}, e \in {"false", "true"} : RangeChange(t, e)

Spec == Init /\ [][Next]_vars

\* plain rendering: segments and mirrorInfo change, nothing selected or hidden
NextPlain ==
    \/ RenderCall(PlainArrays, HtmlCounts, MirrorInfos, {NoId}, {NoHidden})
    \/ Unrender

SpecPlain == Init /\ [][NextPlain]_vars

\* selection: segments, mirrorInfo and selectedInstanceId change; a segment's
\* html parses to no element or to one
NextSelected ==
    \/ RenderCall(SegArrays, 0 .. 1, MirrorInfos, SelectedIds, {NoHidden})
    \/ Unrender

SpecSelected == Init /\ [][NextSelected]_vars

\* hidden instances: segments, mirrorInfo and hiddenInstances change; a
\* segment's html parses to no element or to one
NextHidden ==
    \/ RenderCall(SegArrays, 0 .. 1, MirrorInfos, {NoId}, HiddenMaps)
    \/ Unrender

SpecHidden == Init /\ [][NextHidden]_vars

\* sizing: renderSegs calls between computeSizes and assignSizes calls
NextSizing ==
    \/ RenderCall(PlainArrays, 0 .. 1, MirrorInfos, {NoId}, {NoHidden})
    \/ \E force \in BOOLEAN : ComputeSizes(force)
    \/ \E force \in BOOLEAN : AssignSizes(force)

SpecSizing == Init /\ [][NextSizing]_vars

\* the computed options: renderSegs calls between changes of the options
\* object and of what the subclass computes
NextOptions ==
    \/ RenderCall({<< >>}, {1}, {"undefined"}, {NoId}, {NoHidden})
    \/ \E dt \in OptBools, de \in OptBools, fmt \in OptFormats : SetOptions(dt, de, fmt)
    \/ \E t \in {"false", "true"}, e \in {"false", "true"} : RangeChange(t, e)

SpecOptions == Init /\ [][NextOptions]_vars

\* ---- the time-text helpers.  They change no state: one call per behaviour,
\* on a renderer constructed under any options and subclass, before or after
\* its first renderSegs.
Dates == {"null", "date1", "date2"}
Tzos == {"undefined", "60"}
FormatterArgs == {UndefinedFormatter, NullFormatter, createFormatter("argFormat", "undefined")}
DisplayEndArgs == {"undefined", "null", "false", "true"}

TimeCall(op, start, end, hasEnd, allDay, formatter, displayEnd, tzoStart, tzoEnd) ==
    [op |-> op, start |-> start, end |-> end, hasEnd |-> hasEnd, allDay |-> allDay,
     formatter |-> formatter, displayEnd |-> displayEnd,
     forcedStartTzo |-> tzoStart, forcedEndTzo |-> tzoEnd]

GetTimeText(start, end, hasEnd, allDay, formatter, displayEnd, tzoStart, tzoEnd) ==
    /\ call.op \in {"new", "renderSegs"}
    /\ call' = TimeCall("getTimeText", start, end, hasEnd, allDay, formatter,
                        displayEnd, tzoStart, tzoEnd)
    /\ ret' = getTimeText(
                 [def |-> [hasEnd |-> hasEnd, allDay |-> allDay],
                  instance |-> [range |-> [start |-> start, end |-> end],
                                forcedStartTzo |-> tzoStart, forcedEndTzo |-> tzoEnd]],
                 formatter, displayEnd)
    /\ UNCHANGED rendererVars

_GetTimeText(start, end, allDay, formatter, displayEnd, tzoStart, tzoEnd) ==
    /\ call.op \in {"new", "renderSegs"}
    /\ call' = TimeCall("_getTimeText", start, end, TRUE, allDay, formatter,
                        displayEnd, tzoStart, tzoEnd)
    /\ ret' = _getTimeText(start, end, allDay, formatter, displayEnd, tzoStart, tzoEnd)
    /\ UNCHANGED rendererVars

InitTime ==
    \E dt \in OptBools, de \in OptBools, fmt \in OptFormats,
       t \in {"false", "true"}, e \in {"false", "true"} :
          Constructed(NewOptions(0, dt, de, fmt), t, e)

NextTime ==
    \/ /\ call.op = "new"
       /\ RenderCall({<< >>}, {1}, {"undefined"}, {NoId}, {NoHidden})
    \/ /\ call.op \in {"new", "renderSegs"}
       /\ \E start \in Dates \ {"null"}, end \in Dates \ {"date1"}, hasEnd \in BOOLEAN,
             allDay \in {"false", "true"}, formatter \in FormatterArgs,
             displayEnd \in DisplayEndArgs, tzoStart \in Tzos, tzoEnd \in Tzos :
                GetTimeText(start, end, hasEnd, allDay, formatter, displayEnd,
                            tzoStart, tzoEnd)
    \/ /\ call.op \in {"new", "renderSegs"}
       /\ \E start \in Dates \ {"null"}, end \in Dates \ {"date1"},
             allDay \in {"undefined", "false", "true"}, formatter \in FormatterArgs,
             displayEnd \in DisplayEndArgs, tzoStart \in Tzos, tzoEnd \in Tzos :
                _GetTimeText(start, end, allDay, formatter, displayEnd, tzoStart, tzoEnd)

SpecTime == InitTime /\ [][NextTime]_vars

\* ---- sortEventSegs, a pure function: one call per behaviour
SortDates == {NullDate} \cup {Date(ms) : ms \in 1 .. 2}
SortSegs == {[publicId |-> "", start |-> st, end |-> en, allDay |-> ad, obj |-> 0] :
                st \in SortDates, en \in {NullDate, Date(2)}, ad \in BOOLEAN}
\* arrays of distinct Seg objects: obj is the object's identity
SortArrays == UNION {{[i \in 1 .. n |-> [a[i] EXCEPT !.obj = i]] : a \in [1 .. n -> SortSegs]} :
                       n \in 0 .. MaxSortSegs}
FieldSpec(field, order) == [field |-> field, order |-> order]
\* parsed eventOrder settings, among them the default "start,-duration,allDay"
EventOrderSpecs ==
    { << >>,
      << FieldSpec("start", 1) >>,
      << FieldSpec("duration", -1) >>,
      << FieldSpec("start", 1), FieldSpec("duration", -1), FieldSpec("allDay", 1) >>,
      << FieldSpec("allDay", -1), FieldSpec("end", 1) >> }

SortEventSegs(sortSegs, eventOrderSpecs) ==
    /\ call.op = "new"
    /\ call' = [op |-> "sortEventSegs", segs |-> sortSegs,
                eventOrderSpecs |-> eventOrderSpecs]
    /\ ret' = sortEventSegs(sortSegs, eventOrderSpecs)
    /\ UNCHANGED rendererVars

NextSort ==
    /\ call.op = "new"
    /\ \E sortSegs \in SortArrays, eventOrderSpecs \in EventOrderSpecs :
          SortEventSegs(sortSegs, eventOrderSpecs)

SpecSort == Init /\ [][NextSort]_vars

\* ------------------------------------------------------------------ claims
\* the segments the latest renderSegs returned, as positions in props.segs
ReturnedSegs == {returned.idx[k] : k \in 1 .. Len(returned.idx)}

\* C3: after renderSegEls (run by a renderSegs call that rendered), every
\* segment that has an el has the element parsed from its own html, the
\* returned list is an order-preserving subset of the input whose segments
\* all have an el, and an empty input array is returned as it is.
C3_RenderSegElsOwnElement ==
    (call.op = "renderSegs" /\ ~thrown /\ log # << >>) =>
        /\ \A i \in 1 .. Len(segEl) : HasEl(segEl[i]) => segEl[i].src = i
        /\ \A k \in 1 .. Len(returned.idx) :
              /\ returned.idx[k] \in 1 .. Len(arrItems)
              /\ HasEl(segEl[returned.idx[k]])
              /\ k > 1 => returned.idx[k - 1] < returned.idx[k]
        /\ Len(arrItems) = 0 => returned = props.segs

\* C4: while the rendering of the latest renderSegs(props) stands, the
\* element of a returned segment carries 'fc-selected' if and only if
\* props.selectedInstanceId is truthy and is the segment's instance id.
C4_SelectionSynchronized ==
    rendered =>
        \A i \in ReturnedSegs :
            ("fc-selected" \in segEl[i].classes)
                <=> (Truthy(props.selectedInstanceId)
                     /\ arrItems[i] = props.selectedInstanceId)

\* a renderSegs call on the rendered array that left the elements in place,
\* with one returned segment selected and another not
C4_Witness ==
    /\ rendered
    /\ call = Op("renderSegs", TRUE)
    /\ log = << >>
    /\ \E i \in ReturnedSegs : "fc-selected" \in segEl[i].classes
    /\ \E i \in ReturnedSegs : "fc-selected" \notin segEl[i].classes

\* C5: while the rendering of the latest renderSegs(props) stands, the
\* element of a returned segment has visibility 'hidden' if and only if
\* props.hiddenInstances is given and has a truthy entry for the segment's
\* instance id, and has visibility '' otherwise.
C5_HiddenSynchronized ==
    rendered =>
        \A i \in ReturnedSegs :
            /\ segEl[i].visibility \in {"", "hidden"}
            /\ (segEl[i].visibility = "hidden")
                  <=> (props.hiddenInstances.given
                       /\ arrItems[i] \in props.hiddenInstances.ids)

\* a renderSegs call on the rendered array that left the elements in place,
\* with one returned segment hidden and another visible
C5_Witness ==
    /\ rendered
    /\ call = Op("renderSegs", TRUE)
    /\ log = << >>
    /\ \E i \in ReturnedSegs : segEl[i].visibility = "hidden"
    /\ \E i \in ReturnedSegs : segEl[i].visibility = ""

\* C7: after every renderSegs call the computed options are those of the
\* current options object and the current compute* results: displayEventTime
\* is options.displayEventTime unless that is null or undefined and then
\* computeDisplayEventTime(), likewise displayEventEnd, and eventTimeFormat is
\* built from options.eventTimeFormat or else computeEventTimeFormat().
C7_ComputedOptionsCurrent ==
    (call.op = "renderSegs" /\ ~thrown) =>
        /\ displayEventTime =
              (IF options.displayEventTime \in {"undefined", "null"}
               THEN computeDisplayEventTime ELSE options.displayEventTime)
        /\ displayEventEnd =
              (IF options.displayEventEnd \in {"undefined", "null"}
               THEN computeDisplayEventEnd ELSE options.displayEventEnd)
        /\ eventTimeFormat =
              createFormatter(IF options.eventTimeFormat = "undefined"
                              THEN computeEventTimeFormat
                              ELSE options.eventTimeFormat,
                              options.defaultRangeSeparator)

\* C8: computeSizes(force) calls computeSegSizes, and assignSizes(force) calls
\* assignSegSizes, exactly when force is true or a renderSegs returned since
\* the last assignSizes, each with the list the most recent renderSegs
\* returned; assignSizes leaves isSizeDirty false, computeSizes leaves it as
\* it is and a renderSegs that returns leaves it true.
C8Step ==
    /\ call'.op = "computeSizes" =>
          /\ log' = IF call'.arg \/ dirtySince
                    THEN << Call("computeSegSizes", returned, FALSE) >> ELSE << >>
          /\ isSizeDirty' = isSizeDirty
    /\ call'.op = "assignSizes" =>
          /\ log' = IF call'.arg \/ dirtySince
                    THEN << Call("assignSegSizes", returned, FALSE) >> ELSE << >>
          /\ isSizeDirty' = FALSE
    /\ (call'.op = "renderSegs" /\ ~thrown') => isSizeDirty' = TRUE

C8_SizingProtocol == [][C8Step]_vars

\* an assignSizes(false) that assigned because a renderSegs had returned
C8_Witness ==
    /\ call = Op("assignSizes", FALSE)
    /\ log = << Call("assignSegSizes", returned, FALSE) >>
    /\ Len(returned.idx) > 0
    /\ ~isSizeDirty

\* C9: a renderSegs call that renders the plain segments makes one
\* triggerPositionedSegs call, with the list renderSegEls returned and
\* isMirror false, after one triggerWillRemoveSegs call for the rendering it
\* replaces (if there is one), with the list of that rendering and the
\* Boolean(mirrorInfo) of that rendering; a call that keeps the rendering
\* makes neither; the teardown makes the one triggerWillRemoveSegs call.
C9Step ==
    LET sameArr == call'.arg
        replaces == ~(plainSub.active /\ sameArr
                      /\ plainSub.props.mirrorInfo = props'.mirrorInfo)
        oldList == Older(plainSub.res.segs, ~sameArr, returned'.ref = CurOut)
        willRemove == IF plainSub.active
                      THEN << Call("triggerWillRemoveSegs", oldList,
                                   Boolean(plainSub.props.mirrorInfo)) >>
                      ELSE << >>
    IN /\ (call'.op = "renderSegs" /\ ~thrown') =>
             /\ log' = IF replaces
                       THEN willRemove
                            \o << Call("triggerPositionedSegs", returned', FALSE) >>
                       ELSE << >>
             /\ (replaces /\ Len(arrItems') > 0) => returned'.ref # props'.segs.ref
       /\ call'.op = "unrender" =>
             log' = IF plainSub.active
                    THEN << Call("triggerWillRemoveSegs", plainSub.res.segs,
                                 Boolean(plainSub.props.mirrorInfo)) >>
                    ELSE << >>

C9_NotificationsPaired == [][C9Step]_vars

\* a mirror rendering was replaced: will-remove with isMirror true, then
\* positioned with isMirror false
C9_Witness ==
    /\ call.op = "renderSegs"
    /\ Len(log) = 2
    /\ log[1].fn = "triggerWillRemoveSegs"
    /\ log[1].isMirror
    /\ log[2] = Call("triggerPositionedSegs", returned, FALSE)
    /\ props.mirrorInfo # "undefined"
    /\ Len(returned.idx) > 0


\* ---- time text (SpecTime)
TimeTextCalled == call.op \in {"getTimeText", "_getTimeText"}
TimeShown == Truthy(displayEventTime) /\ ~Truthy(call.allDay)
\* the end the call works with: the instance's end if the event has one
EffectiveEnd == IF call.hasEnd THEN call.end ELSE "null"

\* C1: getTimeText / _getTimeText return the empty string, and call no
\* dateEnv formatter, whenever displayEventTime is falsy or the event is
\* all-day; they make one dateEnv format / formatRange call exactly when
\* displayEventTime is truthy and the event is not all-day.
C1_TimeTextOnlyWhenDisplayed ==
    TimeTextCalled =>
        IF TimeShown
        THEN /\ Len(ret.calls) = 1
             /\ ret.calls[1].fn \in {"format", "formatRange"}
        ELSE /\ ret.text = ""
             /\ ret.calls = << >>

\* an all-day event asked for its time text while displayEventTime is true
C1_Witness ==
    /\ call.op = "getTimeText"
    /\ displayEventTime = "true"
    /\ call.allDay = "true"
    /\ ret.text = ""

\* C2: when a time is shown, a nullish formatter argument falls back to
\* eventTimeFormat and a nullish displayEnd argument to displayEventEnd;
\* formatRange(start, end, formatter, forced offsets) is the call made exactly
\* when the effective displayEnd is truthy and the event has a non-null end,
\* and otherwise format(start, formatter) with forcedTzo = forcedStartTzo.
C2_TimeTextDefaultsAndRange ==
    (TimeTextCalled /\ TimeShown) =>
        LET f == IF IsNullishFormatter(call.formatter)
                 THEN eventTimeFormat ELSE call.formatter
            d == IF IsNullish(call.displayEnd)
                 THEN displayEventEnd ELSE call.displayEnd
        IN ret.calls =
              IF Truthy(d) /\ EffectiveEnd # "null"
              THEN << DateEnvCall("formatRange", call.start, EffectiveEnd, f,
                                  call.forcedStartTzo, call.forcedEndTzo, "absent") >>
              ELSE << DateEnvCall("format", call.start, "absent", f,
                                  "absent", "absent", call.forcedStartTzo) >>

\* an explicit displayEnd of false wins over a displayEventEnd of true, and a
\* missing formatter falls back to the computed one
C2_Witness ==
    /\ call.op = "getTimeText"
    /\ TimeShown
    /\ call.displayEnd = "false"
    /\ displayEventEnd = "true"
    /\ EffectiveEnd = "date2"
    /\ IsNullishFormatter(call.formatter)
    /\ ret.calls[1].fn = "format"
    /\ ret.calls[1].formatter = eventTimeFormat
    /\ ret.calls[1].formatter.input # "undefined"

\* ---- sorting (SpecSort)
\* C6: sortEventSegs returns a permutation of the Seg objects given, every
\* adjacent pair of it compares <= 0 under compareByFieldSpecs on the
\* segments' compare objects, and the input array is left as it was.
C6_SortEventSegsSorted ==
    call.op = "sortEventSegs" =>
        LET n == Len(call.segs)
            r == ret.result
        IN /\ Len(r) = n
           /\ {r[i].obj : i \in 1 .. n} = 1 .. n
           /\ \A i \in 1 .. n : r[i] = call.segs[r[i].obj]
           /\ \A i \in 1 .. n - 1 :
                 compareByFieldSpecs(buildSegCompareObj(r[i]),
                                     buildSegCompareObj(r[i + 1]),
                                     call.eventOrderSpecs) <= 0
           /\ ret.segs = call.segs

\* three segments given out of order under the default specs
C6_Witness ==
    /\ call.op = "sortEventSegs"
    /\ Len(call.segs) = MaxSortSegs
    /\ Len(call.eventOrderSpecs) = 3
    /\ ret.result # call.segs
    /\ ret.result[1] = call.segs[MaxSortSegs]
====
